---------------------------- MODULE Spec2Model ----------------------------
(***************************************************************************)
(* A model of checkout2/api.py: the signature canonicalizer                *)
(* (signature_payload), the signer/verifier of CheckoutAPI (sign_request,  *)
(* is_response_ok), the PaymentRequest builder and CheckoutAPI.send_request.*)
(*                                                                         *)
(* Python str values that take part in canonicalization are sequences of   *)
(* code points, bytes values are sequences of integers 0..255.  The other  *)
(* Python strings (URLs, references, ...) are TLA+ strings.                *)
(***************************************************************************)
EXTENDS Integers, Sequences, FiniteSets, TLC

(***************************************************************************)
(* Bounds of the model.                                                    *)
(***************************************************************************)
\* the largest number of entries of a header mapping given to the signer
MaxHeaders == 2
\* the largest number of add_item calls on one PaymentRequest
MaxItems == 2

(***************************************************************************)
(* Python values.                                                          *)
(***************************************************************************)
\* None where a bytes body is expected: no byte is -1
NoBody == <<-1>>
\* None where a str is expected (the builder's arguments)
PyNone == "<None>"

\* str.lower on one code point (ASCII and Latin-1 capitals)
Lower(c) ==
    IF (c >= 65 /\ c <= 90) \/ (c >= 192 /\ c <= 222 /\ c # 215)
    THEN c + 32
    ELSE c

\* str.lower
LowerStr(s) == [i \in 1..Len(s) |-> Lower(s[i])]

\* str.startswith
StartsWith(s, p) == Len(s) >= Len(p) /\ SubSeq(s, 1, Len(p)) = p

\* str.encode (UTF-8) of one code point below U+0800
EncodeChar(c) ==
    IF c < 128 THEN <<c>> ELSE <<192 + (c \div 64), 128 + (c % 64)>>

RECURSIVE Encode(_)
\* str.encode: the UTF-8 bytes of a str
Encode(s) == IF s = <<>> THEN <<>> ELSE EncodeChar(Head(s)) \o Encode(Tail(s))

RECURSIVE StrLess(_, _)
\* the order of Python str: lexicographic by code point
StrLess(a, b) ==
    IF b = <<>> THEN FALSE
    ELSE IF a = <<>> THEN TRUE
    ELSE IF Head(a) # Head(b) THEN Head(a) < Head(b)
    ELSE StrLess(Tail(a), Tail(b))

RECURSIVE InsertByName(_, _)
\* one step of a stable sort on the pair's first component: x goes after
\* every pair whose name is less than or equal to its own
InsertByName(sorted, x) ==
    IF sorted = <<>> THEN <<x>>
    ELSE IF StrLess(x[1], Head(sorted)[1]) THEN <<x>> \o sorted
    ELSE <<Head(sorted)>> \o InsertByName(Tail(sorted), x)

RECURSIVE SortOnto(_, _)
SortOnto(acc, hs) ==
    IF hs = <<>> THEN acc ELSE SortOnto(InsertByName(acc, Head(hs)), Tail(hs))

\* sorted(hs, key=lambda x: x[0]): stable, compares the names only
SortedByName(hs) == SortOnto(<<>>, hs)

RECURSIVE Join(_, _)
\* sep.join(parts) on bytes
Join(sep, parts) ==
    IF parts = <<>> THEN <<>>
    ELSE IF Len(parts) = 1 THEN parts[1]
    ELSE parts[1] \o sep \o Join(sep, Tail(parts))

(***************************************************************************)
(* The text of the header names and values the model uses.                 *)
(***************************************************************************)
\* "checkout-"
CheckoutPrefix == <<99, 104, 101, 99, 107, 111, 117, 116, 45>>
\* "checkout-a"
NameA == CheckoutPrefix \o <<97>>
\* "Checkout-A"
NameACap == <<67, 104, 101, 99, 107, 111, 117, 116, 45, 65>>
\* "checkout-b"
NameB == CheckoutPrefix \o <<98>>
\* "checkouta": no dash, so not a checkout- header
NameNoDash == <<99, 104, 101, 99, 107, 111, 117, 116, 97>>
\* "x-other"
NameOther == <<120, 45, 111, 116, 104, 101, 114>>
\* "checkout-algorithm"
NameAlgorithm == CheckoutPrefix \o <<97, 108, 103, 111, 114, 105, 116, 104, 109>>
\* "signature"
NameSignature == <<115, 105, 103, 110, 97, 116, 117, 114, 101>>
\* "cof-request-id"
NameRequestId == <<99, 111, 102, 45, 114, 101, 113, 117, 101, 115, 116, 45, 105, 100>>
\* "sha512", "sha256": digests hashlib knows; "sha513": one it does not
Sha512 == <<115, 104, 97, 53, 49, 50>>
Sha256 == <<115, 104, 97, 50, 53, 54>>
Sha513 == <<115, 104, 97, 53, 49, 51>>
\* "x", "y" and the non-ASCII "e-acute"
ValX == <<120>>
ValY == <<121>>
ValEAcute == <<233>>

(***************************************************************************)
(* Header mappings.  A mapping is the sequence of its (name, value) pairs  *)
(* in iteration order, which for a dict is insertion order.  A plain dict  *)
(* holds each exact name once; requests' CaseInsensitiveDict holds each    *)
(* name once up to letter case and looks names up ignoring case.           *)
(***************************************************************************)
IsDict(h) == \A i, j \in 1..Len(h) : h[i][1] = h[j][1] => i = j

IsCaseInsensitiveDict(h) ==
    \A i, j \in 1..Len(h) : LowerStr(h[i][1]) = LowerStr(h[j][1]) => i = j

\* key in mapping
HasKey(h, k, ci) ==
    \E i \in 1..Len(h) :
        IF ci THEN LowerStr(h[i][1]) = LowerStr(k) ELSE h[i][1] = k

\* mapping[key], for a key the mapping holds
Lookup(h, k, ci) ==
    LET i == CHOOSE i \in 1..Len(h) :
                 IF ci THEN LowerStr(h[i][1]) = LowerStr(k) ELSE h[i][1] = k
    IN h[i][2]

\* mapping[key] = value on a dict: a new key is appended, the value of a
\* key already present is replaced where it stands
SetItem(h, k, v) ==
    IF HasKey(h, k, FALSE)
    THEN [i \in 1..Len(h) |-> IF h[i][1] = k THEN <<k, v>> ELSE h[i]]
    ELSE Append(h, <<k, v>>)

(***************************************************************************)
(* signature_payload                                                       *)
(***************************************************************************)
RECURSIVE CheckoutHeaders_KeepCase(_)
\* the loop with the lowercasing of the name left out
CheckoutHeaders_KeepCase(headers) ==
    IF headers = <<>> THEN <<>>
    ELSE LET hn == Head(headers)[1]
             hd == Head(headers)[2]
         IN (IF StartsWith(hn, CheckoutPrefix) THEN <<(<<hn, hd>>)>> ELSE <<>>)
            \o CheckoutHeaders_KeepCase(Tail(headers))

RECURSIVE CheckoutHeaders(_)
\* the loop of signature_payload: hs holds, in iteration order, the pairs
\* whose lowercased name starts with "checkout-", under that lowercased name
CheckoutHeaders(headers) ==
    IF headers = <<>> THEN <<>>
    ELSE LET hn == LowerStr(Head(headers)[1])
             hd == Head(headers)[2]
         IN (IF StartsWith(hn, CheckoutPrefix) THEN <<(<<hn, hd>>)>> ELSE <<>>)
            \o CheckoutHeaders(Tail(headers))

PayloadLines(hs) == [i \in 1..Len(hs) |-> Encode(hs[i][1]) \o <<58>> \o Encode(hs[i][2])]

\* a None body adds no segment at all (b"" still adds its empty one)
signature_payload_NoSegmentForNone(headers, body) ==
    Join(<<10>>,
         PayloadLines(SortedByName(CheckoutHeaders(headers)))
         \o (IF body # NoBody THEN <<body>> ELSE <<>>))

signature_payload(headers, body) ==
    Join(<<10>>,
         PayloadLines(SortedByName(CheckoutHeaders(headers)))
         \o (IF body # NoBody THEN <<body>> ELSE << <<>> >>))


(***************************************************************************)
(* CheckoutAPI: construction, sign_request, is_response_ok                 *)
(***************************************************************************)
\* "375917": the merchant id given to CheckoutAPI(...)
MerchantId == <<51, 55, 53, 57, 49, 55>>
\* "SAIPPUAKAUPPIAS": the secret key given to CheckoutAPI(...)
SecretKey == <<83, 65, 73, 80, 80, 85, 65, 75, 65, 85, 80, 80, 73, 65, 83>>

\* CheckoutAPI.__init__: the four attributes of the object
CheckoutAPI_init(merchant_id, secret_key, api_endpoint) ==
    [merchant_id |-> merchant_id,
     secret_key |-> secret_key,
     api_endpoint |-> api_endpoint,
     algorithm |-> Sha512]

\* the digest names hmac.new accepts (hashlib's); any other name makes it
\* raise ValueError
KnownDigest(algorithm) == algorithm \in {Sha256, Sha512}

\* hmac.new(key, msg, algorithm).hexdigest() as an ideal keyed digest: a
\* function of the algorithm, the key and the message under which distinct
\* inputs have distinct digests (the message comes last and the key's
\* length is part of the digest, so nothing is lost)
HexDigest(key, msg, algorithm) == algorithm \o <<Len(key)>> \o key \o msg

\* The result of a call: the exception it raised ("none" when it returned)
\* and the value it returned.
Returned(v) == [exc |-> "none", val |-> v]
Raised(e) == [exc |-> e, val |-> <<>>]

sign_request(self, algorithm, headers, body) ==
    IF KnownDigest(algorithm)
    THEN Returned(HexDigest(Encode(self.secret_key),
                            signature_payload(headers, body),
                            algorithm))
    ELSE Raised("ValueError")

\* parameters is a mapping; ci tells that it is a CaseInsensitiveDict (the
\* headers of a requests.Response) and not a plain dict.  The left operand
\* of == is evaluated first, then the argument of sign_request.
is_response_ok(self, parameters, ci, body) ==
    IF ~HasKey(parameters, NameSignature, ci) THEN [exc |-> "KeyError", ok |-> FALSE]
    ELSE IF ~HasKey(parameters, NameAlgorithm, ci) THEN [exc |-> "KeyError", ok |-> FALSE]
    ELSE LET s == sign_request(self,
                               Lookup(parameters, NameAlgorithm, ci),
                               parameters,
                               body)
         IN IF s.exc # "none"
            THEN [exc |-> s.exc, ok |-> FALSE]
            ELSE [exc |-> "none",
                  ok |-> Lookup(parameters, NameSignature, ci) = s.val]

(***************************************************************************)
(* State.                                                                  *)
(***************************************************************************)
VARIABLES
    api,          \* the CheckoutAPI object: merchant_id, secret_key, api_endpoint, algorithm
    sgHeaders,    \* signer: the header mapping (a plain dict) of the message
    sgBody,       \* signer: the body of the message (NoBody when None)
    sgOp,         \* signer: the last operation applied
    sgSig,        \* signer: what sign_request gave for (sgHeaders, sgBody)
    sgAlt,        \* signer: the second message of the last operation: headers, body
    sgPayload,    \* signer: signature_payload of the message
    sgAltPayload, \* signer: signature_payload of the second message
    sgVerdict,    \* signer: what is_response_ok gave for the second message
    prState,      \* builder: "none" before PaymentRequest(...) has run, then "built"
    _items,       \* builder: self._items
    _total_amount, \* builder: self._total_amount
    _obj,         \* builder: self._obj, a dict; its "items" entry refers to self._items
    prCall,       \* builder: the last call made on the object and its arguments
    prRaised,     \* builder: the exception the last call raised, "none" if it returned
    prAdded,      \* builder: the arguments of the add_item calls so far, in order
    prAccesses,   \* builder: the number of jsonable accesses so far
    prCallbacks,  \* builder: the arguments of the last add_callback_urls(success, cancel)
    srPc,         \* send_request: "idle", "Building" (request prepared and signed),
                  \* "Sent" (s.send returned a response), "done"
    srArgs,       \* send_request: the arguments of the call
    srHeaders,    \* send_request: the local dict headers
    srReq,        \* send_request: the prepared request req: method, headers, body
    srSends,      \* send_request: the number of s.send calls made
    srResp,       \* send_request: the response resp: status_code, headers, content
    srOut,        \* send_request: how the call ended: the exception raised, the
                  \* response inside a ProviderError, the value returned, the
                  \* responses given to CheckoutResponse or response_factory, and
                  \* what is_response_ok gave
    psObjects,    \* constructions: the PaymentRequest objects constructed so far, in
                  \* order: self._obj of each and the clock reading it was given
    psClock,      \* constructions: what datetime.now().timestamp() returns now
    ccCalls       \* concurrent send_request calls on the one CheckoutAPI object:
                  \* the position and the local variables of each call

sgVars == <<sgHeaders, sgBody, sgOp, sgSig, sgAlt, sgPayload, sgAltPayload, sgVerdict>>
prVars == <<prState, _items, _total_amount, _obj, prCall, prRaised, prAdded, prAccesses,
           prCallbacks>>
srVars == <<srPc, srArgs, srHeaders, srReq, srSends, srResp, srOut>>
psVars == <<psObjects, psClock>>
ccVars == <<ccCalls>>
vars == <<api, sgVars, prVars, srVars, psVars, ccVars>>


(***************************************************************************)
(* The signer and the canonicalizer applied to bounded inputs.             *)
(***************************************************************************)
\* the (name, value) pairs the input mappings are made of
HeaderPairs ==
    ({NameA, NameACap, NameB, NameOther} \X {ValX, ValEAcute})
    \cup ({NameAlgorithm} \X {Sha512, Sha256})

\* the values a header is changed to
TamperValues == {ValX, ValY, ValEAcute, Sha512, Sha256, Sha513}

\* the names of the headers added beside the checkout- ones
OtherNames == {NameOther, NameNoDash, NameSignature, NameRequestId}

\* b"", b"b" and b"{}", and None
Bodies == {NoBody, <<>>, <<98>>, <<123, 125>>}

\* the bytes of a body on the wire: None and b"" both send nothing
BodyBytes(body) == IF body = NoBody THEN <<>> ELSE body

\* every plain dict of at most MaxHeaders of the pairs
Dicts ==
    UNION {{h \in [1..n -> HeaderPairs] : IsDict(h)} : n \in 0..MaxHeaders}

\* str.upper on the names of the model (ASCII letters)
UpperStr(s) == [i \in 1..Len(s) |-> IF s[i] >= 97 /\ s[i] <= 122 THEN s[i] - 32 ELSE s[i]]

\* whether header name hn takes part in signing
IsCheckoutName(hn) == StartsWith(LowerStr(hn), CheckoutPrefix)

\* the mapping without its i-th entry
RemoveAt(h, i) == SubSeq(h, 1, i - 1) \o SubSeq(h, i + 1, Len(h))

\* the mapping with the value of its i-th entry replaced
ReplaceValueAt(h, i, v) == [j \in 1..Len(h) |-> IF j = i THEN <<h[j][1], v>> ELSE h[j]]

OrdersOf(n) == {p \in [1..n -> 1..n] : \A i, j \in 1..n : p[i] = p[j] => i = j}

SgInit ==
    /\ sgHeaders \in Dicts
    /\ sgBody \in Bodies
    /\ sgOp = "input"
    /\ sgSig = Raised("unset")
    /\ sgAlt = [headers |-> <<>>, body |-> NoBody]
    /\ sgPayload = <<>>
    /\ sgAltPayload = <<>>
    /\ sgVerdict = [exc |-> "unset", ok |-> FALSE]

\* s = sign_request(A, headers, body) with A the message's checkout-algorithm
Sign ==
    /\ sgOp = "input"
    /\ HasKey(sgHeaders, NameAlgorithm, FALSE)
    /\ sgSig' = sign_request(api, Lookup(sgHeaders, NameAlgorithm, FALSE), sgHeaders, sgBody)
    /\ sgOp' = "sign"
    /\ sgPayload' = signature_payload(sgHeaders, sgBody)
    /\ UNCHANGED <<api, psVars, ccVars, sgHeaders, sgBody, sgAlt, sgAltPayload, sgVerdict, prVars, srVars>>

\* is_response_ok on a second message: headers h plus signature = s, body b
VerifyAs(op, h, b) ==
    /\ sgOp = "sign"
    /\ sgSig.exc = "none"
    /\ LET signed == SetItem(h, NameSignature, sgSig.val)
       IN /\ sgAlt' = [headers |-> signed, body |-> b]
          /\ sgVerdict' = is_response_ok(api, signed, FALSE, b)
          /\ sgAltPayload' = signature_payload(signed, b)
    /\ sgOp' = op
    /\ UNCHANGED <<api, psVars, ccVars, sgHeaders, sgBody, sgSig, sgPayload, prVars, srVars>>

\* the signed message itself is verified
VerifySame == VerifyAs("verify", sgHeaders, sgBody)

\* the body is changed, the rest kept
VerifyTamperedBody ==
    \E b \in Bodies :
        /\ BodyBytes(b) # BodyBytes(sgBody)
        /\ VerifyAs("tamper_body", sgHeaders, b)

\* None where the message has b"", b"" where it has None
SwappedBody(body) == IF body = NoBody THEN <<>> ELSE NoBody

\* the message signed with no body is verified with b"", and the other way
VerifySwappedBody ==
    /\ BodyBytes(sgBody) = <<>>
    /\ VerifyAs("verify_swapped_body", sgHeaders, SwappedBody(sgBody))

\* the value of one checkout- header is changed, the rest kept
VerifyTamperedHeader ==
    \E i \in 1..Len(sgHeaders), v \in TamperValues :
        /\ IsCheckoutName(sgHeaders[i][1])
        /\ v # sgHeaders[i][2]
        /\ VerifyAs("tamper_header", ReplaceValueAt(sgHeaders, i, v), sgBody)

\* a second message is canonicalized beside the first
CanonicalizeAs(op, h, b) ==
    /\ sgOp = "input"
    /\ sgOp' = op
    /\ sgAlt' = [headers |-> h, body |-> b]
    /\ sgPayload' = signature_payload(sgHeaders, sgBody)
    /\ sgAltPayload' = signature_payload(h, b)
    /\ UNCHANGED <<api, psVars, ccVars, sgHeaders, sgBody, sgSig, sgVerdict, prVars, srVars>>

\* the same headers canonicalized with None for b"", and the other way
SwapBody ==
    /\ BodyBytes(sgBody) = <<>>
    /\ CanonicalizeAs("swap_body", sgHeaders, SwappedBody(sgBody))

\* the same entries inserted in another order
Permute ==
    \E p \in OrdersOf(Len(sgHeaders)) :
        CanonicalizeAs("permute", [i \in 1..Len(sgHeaders) |-> sgHeaders[p[i]]], sgBody)

\* the same entries, in the same order, under names of other letter case
Recase ==
    \E f \in [1..Len(sgHeaders) -> {"same", "upper", "lower"}] :
        LET h == [i \in 1..Len(sgHeaders) |->
                     <<CASE f[i] = "same" -> sgHeaders[i][1]
                         [] f[i] = "upper" -> UpperStr(sgHeaders[i][1])
                         [] f[i] = "lower" -> LowerStr(sgHeaders[i][1]),
                       sgHeaders[i][2]>>]
        IN /\ h # sgHeaders
           /\ IsDict(h)
           /\ CanonicalizeAs("recase", h, sgBody)

\* a header that is no checkout- header is added
AddOther ==
    \E n \in OtherNames, v \in {ValX, ValY} :
        /\ ~HasKey(sgHeaders, n, FALSE)
        /\ \E k \in 0..Len(sgHeaders) :
               CanonicalizeAs("add_other",
                              SubSeq(sgHeaders, 1, k) \o <<(<<n, v>>)>>
                                  \o SubSeq(sgHeaders, k + 1, Len(sgHeaders)),
                              sgBody)

\* a header that is no checkout- header is removed
RemoveOther ==
    \E i \in 1..Len(sgHeaders) :
        /\ ~IsCheckoutName(sgHeaders[i][1])
        /\ CanonicalizeAs("remove_other", RemoveAt(sgHeaders, i), sgBody)

\* the value of a header that is no checkout- header is changed
ChangeOther ==
    \E i \in 1..Len(sgHeaders), v \in TamperValues :
        /\ ~IsCheckoutName(sgHeaders[i][1])
        /\ v # sgHeaders[i][2]
        /\ CanonicalizeAs("change_other", ReplaceValueAt(sgHeaders, i, v), sgBody)

\* is_response_ok applied to a mapping as it arrives: the message with or
\* without a signature entry (a wrong one, or the one sign_request gives),
\* its checkout-algorithm kept or naming no digest
Check ==
    \E sigKind \in {"absent", "wrong", "right"}, algKind \in {"keep", "unknown"} :
        /\ sgOp = "input"
        /\ (algKind = "unknown") => HasKey(sgHeaders, NameAlgorithm, FALSE)
        /\ (sigKind = "right") => (algKind = "keep" /\ HasKey(sgHeaders, NameAlgorithm, FALSE))
        /\ LET h == IF algKind = "unknown"
                    THEN SetItem(sgHeaders, NameAlgorithm, Sha513)
                    ELSE sgHeaders
               parameters ==
                   CASE sigKind = "absent" -> h
                     [] sigKind = "wrong" -> SetItem(h, NameSignature, ValX)
                     [] sigKind = "right" ->
                            SetItem(h, NameSignature,
                                    sign_request(api, Lookup(h, NameAlgorithm, FALSE),
                                                 h, sgBody).val)
           IN /\ sgAlt' = [headers |-> parameters, body |-> sgBody]
              /\ sgVerdict' = is_response_ok(api, parameters, FALSE, sgBody)
              /\ sgAltPayload' = signature_payload(parameters, sgBody)
        /\ sgOp' = "check"
        /\ sgPayload' = signature_payload(sgHeaders, sgBody)
        /\ UNCHANGED <<api, psVars, ccVars, sgHeaders, sgBody, sgSig, prVars, srVars>>

SgNext ==
    \/ Sign
    \/ Check
    \/ VerifySame
    \/ VerifyTamperedBody
    \/ VerifySwappedBody
    \/ VerifyTamperedHeader
    \/ SwapBody
    \/ Permute
    \/ Recase
    \/ AddOther
    \/ RemoveOther
    \/ ChangeOther

ApiInit == api = CheckoutAPI_init(MerchantId, SecretKey, "https://api.checkout.fi")

\* None where a str is expected in a header
NoValue == <<-1>>

\* a response that does not exist (yet)
NoResponse == [status_code |-> 0, headers |-> <<>>, content |-> <<>>]

\* nothing returned
NoResult == [kind |-> "none", request_id |-> <<>>, data |-> <<>>]

\* a send_request call that has not ended
NoOutcome ==
    [raised |-> "none",
     response |-> NoResponse,
     result |-> NoResult,
     trusted |-> <<>>,
     verdict |-> [exc |-> "not_called", ok |-> FALSE]]

\* no send_request call has started
SrInit ==
    /\ srPc = "idle"
    /\ srArgs = [via |-> "none", amount |-> <<>>, path |-> <<>>,
                 method |-> <<>>, data |-> "None", transaction_id |-> NoValue,
                 response_factory |-> "None"]
    /\ srHeaders = <<>>
    /\ srReq = [method |-> <<>>, headers |-> <<>>, body |-> NoBody]
    /\ srSends = 0
    /\ srResp = NoResponse
    /\ srOut = NoOutcome

\* the state of the parts a specification leaves alone
SgIdle ==
    /\ sgHeaders = <<>>
    /\ sgBody = NoBody
    /\ sgOp = "idle"
    /\ sgSig = Raised("unset")
    /\ sgAlt = [headers |-> <<>>, body |-> NoBody]
    /\ sgPayload = <<>>
    /\ sgAltPayload = <<>>
    /\ sgVerdict = [exc |-> "unset", ok |-> FALSE]

\* no PaymentRequest has been constructed
PrInit ==
    /\ prState = "none"
    /\ _items = <<>>
    /\ _total_amount = 0
    /\ _obj = <<>>
    /\ prCall = [op |-> "none"]
    /\ prRaised = "none"
    /\ prAdded = <<>>
    /\ prAccesses = 0
    /\ prCallbacks = <<>>

\* no PaymentRequest construction is followed
PsIdle ==
    /\ psObjects = <<>>
    /\ psClock = 0

\* no concurrent send_request call is followed
CcIdle == ccCalls = <<>>

InitSign == ApiInit /\ SgInit /\ PrInit /\ SrInit /\ PsIdle /\ CcIdle

SpecSign == InitSign /\ [][SgNext]_vars


(***************************************************************************)
(* Claims about the signer and the canonicalizer (under SpecSign).         *)
(***************************************************************************)
\* C3: a message signed with sign_request verifies in is_response_ok with
\* the signature added (round trip), and with the body or the value of one
\* checkout- header changed is_response_ok returns false.
C3_RoundTripAndTamperReturnsFalse ==
    /\ (sgOp = "verify") => (sgVerdict = [exc |-> "none", ok |-> TRUE])
    /\ (sgOp \in {"tamper_body", "tamper_header"})
           => (sgVerdict = [exc |-> "none", ok |-> FALSE])

\* C3, the part the code keeps: the round trip returns true and a changed
\* message is never accepted (is_response_ok returns false or raises).
C3_RoundTripAndTamperNotAccepted ==
    /\ (sgOp = "verify") => (sgVerdict = [exc |-> "none", ok |-> TRUE])
    /\ (sgOp \in {"tamper_body", "tamper_header"}) => ~sgVerdict.ok

\* C3, where it fails: is_response_ok raises only when the changed header is
\* checkout-algorithm and its new value names no digest.
C3_TamperRaisesOnlyOnUnknownDigest ==
    (sgOp \in {"tamper_body", "tamper_header"} /\ sgVerdict.exc # "none")
        => (/\ sgVerdict.exc = "ValueError"
            /\ ~KnownDigest(Lookup(sgAlt.headers, NameAlgorithm, FALSE)))

\* C11: is_response_ok is a boolean predicate with one typed failure: with
\* both "signature" and "checkout-algorithm" among the parameters it returns
\* true or false and raises nothing, and with one of them absent it fails
\* with the missing-key error (KeyError) and never returns true.
C11_BooleanWithMissingKeyError ==
    (sgOp = "check")
        => (/\ (/\ HasKey(sgAlt.headers, NameSignature, FALSE)
                /\ HasKey(sgAlt.headers, NameAlgorithm, FALSE))
                   => (sgVerdict.exc = "none")
            /\ (\/ ~HasKey(sgAlt.headers, NameSignature, FALSE)
                \/ ~HasKey(sgAlt.headers, NameAlgorithm, FALSE))
                   => (sgVerdict = [exc |-> "KeyError", ok |-> FALSE]))

\* C11, the part the code keeps: a wrong signature under a digest hmac knows
\* gives false, a missing key gives KeyError, and the only other failure is
\* the ValueError of a checkout-algorithm that names no digest.
C11_RaisesOnlyKeyErrorOrValueError ==
    (sgOp = "check")
        => (/\ (sgVerdict.exc = "ValueError")
                   <=> (/\ HasKey(sgAlt.headers, NameSignature, FALSE)
                        /\ HasKey(sgAlt.headers, NameAlgorithm, FALSE)
                        /\ ~KnownDigest(Lookup(sgAlt.headers, NameAlgorithm, FALSE)))
            /\ (sgVerdict.exc = "KeyError")
                   <=> (\/ ~HasKey(sgAlt.headers, NameSignature, FALSE)
                        \/ ~HasKey(sgAlt.headers, NameAlgorithm, FALSE))
            /\ sgVerdict.exc \in {"none", "KeyError", "ValueError"}
            /\ sgVerdict.ok => (sgVerdict.exc = "none"))

\* C18: an absent body and an empty body are the same to signing: for every
\* header set signature_payload(headers, None) = signature_payload(headers,
\* b""), a signature computed with the one verifies in is_response_ok with
\* the other, and with no checkout- header and no body the payload is b"".
C18_AbsentBodyIsEmptyBody ==
    /\ (sgOp \in {"swap_body", "verify_swapped_body"})
           => (/\ sgAlt.body # sgBody
               /\ sgAltPayload = sgPayload)
    /\ (sgOp = "verify_swapped_body") => (sgVerdict = [exc |-> "none", ok |-> TRUE])
    /\ (sgOp = "swap_body" /\ CheckoutHeaders(sgHeaders) = <<>>)
           => (sgPayload = <<>> /\ sgAltPayload = <<>>)

\* C18 witness: a message with checkout- headers signed with body None was
\* verified with body b"".
C18_Witness ==
    /\ sgOp = "verify_swapped_body"
    /\ sgBody = NoBody
    /\ sgAlt.body = <<>>
    /\ Len(CheckoutHeaders(sgHeaders)) = 2
    /\ sgVerdict.ok

\* C5: the payload does not depend on the order in which the entries of the
\* header mapping were inserted, also for a plain dict holding two names
\* that differ only in letter case.
C5_PayloadOrderIndependent ==
    sgOp = "permute" => sgAltPayload = sgPayload

\* C5, the part the code keeps: mappings whose names are distinct up to
\* letter case canonicalize the same in every order.
C5_OrderIndependentOnDistinctNames ==
    (sgOp = "permute" /\ IsCaseInsensitiveDict(sgHeaders)) => (sgAltPayload = sgPayload)

\* C6: the payload ignores the letter case of header names, and adding,
\* removing or changing a header whose lowercased name does not start with
\* "checkout-" never changes it.
C6_CaseInsensitiveAndFiltered ==
    sgOp \in {"recase", "add_other", "remove_other", "change_other"}
        => sgAltPayload = sgPayload

\* C6 witness: a mapping with a checkout- header renamed in another letter
\* case, beside a header that is dropped, was canonicalized.
C6_Witness ==
    /\ sgOp = "recase"
    /\ \E i \in 1..Len(sgHeaders) :
           /\ IsCheckoutName(sgHeaders[i][1])
           /\ sgAlt.headers[i][1] # sgHeaders[i][1]
    /\ \E j \in 1..Len(sgHeaders) : ~IsCheckoutName(sgHeaders[j][1])
    /\ sgAltPayload # <<>>


(***************************************************************************)
(* PaymentRequest.  A Python dict with str keys is a function on its keys. *)
(***************************************************************************)
\* the most jsonable accesses followed on one PaymentRequest
MaxAccesses == 2

\* the empty dict
EmptyDict == <<>>

\* {key: value} when value is not None, else nothing: the "if x is not
\* None: d[key] = x" statements
Optional(key, value) == IF value # PyNone THEN key :> value ELSE EmptyDict

\* "{}".format(x) for a str or None
FormatStr(x) == IF x = PyNone THEN "None" ELSE x

\* two decimal digits, zero padded
Pad2(n) == IF n < 10 THEN "0" \o ToString(n) ELSE ToString(n)

\* four decimal digits, zero padded
Pad4(n) == IF n < 1000 THEN "0" \o (IF n < 100 THEN "0" \o Pad2(n) ELSE ToString(n))
           ELSE ToString(n)

\* datetime.date.isoformat: YYYY-MM-DD
isoformat(date) == Pad4(date.year) \o "-" \o Pad2(date.month) \o "-" \o Pad2(date.day)

\* the marker that stands in self._obj["items"] for the list self._items:
\* jsonable stores the list object itself, not a copy
ItemsRef == "self._items"

\* PaymentRequest.__init__ with the arguments a; now is
\* datetime.now().timestamp()
PaymentRequest_init(a, now) ==
    LET customer == ("email" :> a.email)
                    @@ Optional("firstName", a.first_name)
                    @@ Optional("lastName", a.last_name)
                    @@ Optional("phone", a.phone)
                    @@ Optional("vatId", a.vat_id)
    IN [items |-> <<>>,
        total_amount |-> 0,
        obj |-> ("reference" :> a.reference)
                @@ ("stamp" :> FormatStr(a.reference) \o "@" \o ToString(now))
                @@ ("currency" :> "EUR")
                @@ ("language" :> a.language)
                @@ ("customer" :> customer)
                @@ ("redirectUrls" :> [success |-> a.redirect_success,
                                       cancel |-> a.redirect_cancel])]

\* the item dict add_item builds
ItemOf(a) ==
    ("productCode" :> a.product_code)
    @@ ("deliveryDate" :> isoformat(a.delivery_date))
    @@ ("unitPrice" :> a.unit_price)
    @@ ("units" :> a.unit_count)
    @@ ("vatPercentage" :> a.vat_rate)
    @@ Optional("description", a.description)
    @@ Optional("category", a.category)

\* add_item adding the unit price without the unit count to the total
add_item_PriceOnly(items, total_amount, a) ==
    [items |-> Append(items, ItemOf(a)),
     total_amount |-> total_amount + a.unit_price]

\* add_item: the item list and the running total it leaves
add_item(items, total_amount, a) ==
    [items |-> Append(items, ItemOf(a)),
     total_amount |-> total_amount + a.unit_price * a.unit_count]

\* the property returning a new dict that holds only the two entries it
\* assigns
jsonable_FreshDict(obj, total_amount) ==
    ("items" :> ItemsRef) @@ ("amount" :> total_amount)

\* the jsonable property: self._obj after the two assignments; the object
\* returned is self._obj itself
jsonable(obj, total_amount) ==
    ("items" :> ItemsRef) @@ ("amount" :> total_amount) @@ obj

\* what a holder of self._obj reads in it: the "items" entry is the list
\* self._items as it is now
Document(obj, items) ==
    [k \in DOMAIN obj |-> IF k = "items" THEN items ELSE obj[k]]

\* a call of the instance method add_callback_urls with the positional
\* arguments args: the instance is bound to the first parameter, success.
\* With two arguments three values meet two parameters (TypeError); with one
\* the body runs and finds no name self (NameError).  Neither assigns.
add_callback_urls(obj, args) ==
    IF 1 + Len(args) # 2
    THEN [exc |-> "TypeError", obj |-> obj]
    ELSE [exc |-> "NameError", obj |-> obj]

\* the constructor arguments the model follows: a complete set, and sets
\* with one required argument None or empty
ConstructorArgs ==
    LET ok == [reference |-> "ORDER-1", redirect_success |-> "https://shop/ok",
               redirect_cancel |-> "https://shop/no", email |-> "ada@example.fi",
               first_name |-> PyNone, last_name |-> PyNone, phone |-> PyNone,
               vat_id |-> PyNone, language |-> "FI"]
    IN {ok,
        [ok EXCEPT !.first_name = "Ada", !.last_name = "L", !.phone = "+358",
                   !.vat_id = "FI1", !.language = "EN"],
        [ok EXCEPT !.reference = ""],
        [ok EXCEPT !.reference = PyNone],
        [ok EXCEPT !.email = ""],
        [ok EXCEPT !.redirect_success = ""],
        [ok EXCEPT !.redirect_cancel = PyNone],
        [ok EXCEPT !.language = PyNone]}

\* the values of datetime.now().timestamp() the model follows
ClockValues == {1572890000}

\* the add_item arguments the model follows
ItemArgs ==
    LET sku1 == [product_code |-> "SKU1",
                 delivery_date |-> [year |-> 2019, month |-> 11, day |-> 4],
                 unit_price |-> 1500, unit_count |-> 2, vat_rate |-> 24,
                 description |-> PyNone, category |-> PyNone]
    IN {sku1,
        [sku1 EXCEPT !.product_code = "SKU2", !.unit_price = 333, !.unit_count = 3,
                     !.description = "a book", !.category = "books",
                     !.delivery_date = [year |-> 2020, month |-> 1, day |-> 15]],
        [sku1 EXCEPT !.product_code = "SKU3", !.unit_count = 0],
        [sku1 EXCEPT !.product_code = "SKU4", !.unit_price = 333, !.unit_count = -1]}

Construct ==
    /\ prState = "none"
    /\ \E a \in ConstructorArgs, now \in ClockValues :
           LET new == PaymentRequest_init(a, now)
           IN /\ _items' = new.items
              /\ _total_amount' = new.total_amount
              /\ _obj' = new.obj
              /\ prCall' = [op |-> "PaymentRequest", args |-> a]
    /\ prState' = "built"
    /\ prRaised' = "none"
    /\ UNCHANGED <<api, psVars, ccVars, sgVars, srVars, prAdded, prAccesses, prCallbacks>>

AddItem ==
    /\ prState = "built"
    /\ Len(_items) < MaxItems
    /\ \E a \in ItemArgs :
           LET r == add_item(_items, _total_amount, a)
           IN /\ _items' = r.items
              /\ _total_amount' = r.total_amount
              /\ prCall' = [op |-> "add_item", args |-> a]
              /\ prAdded' = Append(prAdded, a)
    /\ prRaised' = "none"
    /\ UNCHANGED <<api, psVars, ccVars, sgVars, srVars, prState, _obj, prAccesses, prCallbacks>>

Jsonable ==
    /\ prState = "built"
    /\ prAccesses < MaxAccesses
    /\ _obj' = jsonable(_obj, _total_amount)
    /\ prCall' = [op |-> "jsonable",
                  before |-> IF "amount" \in DOMAIN _obj THEN <<_obj["amount"]>> ELSE <<>>]
    /\ prRaised' = "none"
    /\ prAccesses' = prAccesses + 1
    /\ UNCHANGED <<api, psVars, ccVars, sgVars, srVars, prState, _items, _total_amount, prAdded, prCallbacks>>

AddCallbackUrls ==
    /\ prState = "built"
    /\ \E args \in {<<"https://shop/cb-ok", "https://shop/cb-no">>,
                    <<"https://shop/cb2-ok", "https://shop/cb2-no">>,
                    <<"https://shop/cb-no">>} :
           LET r == add_callback_urls(_obj, args)
           IN /\ _obj' = r.obj
              /\ prRaised' = r.exc
              /\ prCall' = [op |-> "add_callback_urls", args |-> args]
              /\ prCallbacks' = IF Len(args) = 2 THEN args ELSE prCallbacks
    /\ UNCHANGED <<api, psVars, ccVars, sgVars, srVars, prState, _items, _total_amount, prAdded, prAccesses>>

PrNext == Construct \/ AddItem \/ Jsonable \/ AddCallbackUrls

InitBuilder == ApiInit /\ SgIdle /\ PrInit /\ SrInit /\ PsIdle /\ CcIdle

SpecBuilder == InitBuilder /\ [][PrNext]_vars


(***************************************************************************)
(* Claims about PaymentRequest (under SpecBuilder).                        *)
(***************************************************************************)
RECURSIVE SumOfItems(_)
\* the sum of unit_price * unit_count over a sequence of add_item arguments
SumOfItems(added) ==
    IF added = <<>> THEN 0
    ELSE Head(added).unit_price * Head(added).unit_count + SumOfItems(Tail(added))

\* C4: every jsonable access returns a document whose amount is the exact
\* sum of unit price times unit count over the items added so far and whose
\* items are exactly those items in the order they were added.
C4_AmountIsExactSum ==
    prCall.op = "jsonable" =>
        LET doc == Document(_obj, _items)
        IN /\ doc["amount"] = SumOfItems(prAdded)
           /\ Len(doc["items"]) = Len(prAdded)
           /\ \A i \in 1..Len(prAdded) :
                  /\ doc["items"][i]["productCode"] = prAdded[i].product_code
                  /\ doc["items"][i]["unitPrice"] = prAdded[i].unit_price
                  /\ doc["items"][i]["units"] = prAdded[i].unit_count

\* C4 witness: jsonable was accessed with amount 3000 in the document
\* (SKU1: 1500 x 2), a second item (SKU2: 333 x 3) was added, and jsonable
\* accessed again gives 3999.
C4_Witness ==
    /\ prCall.op = "jsonable"
    /\ prCall.before = <<3000>>
    /\ Len(_items) = 2
    /\ _items[2]["productCode"] = "SKU2"
    /\ Document(_obj, _items)["amount"] = 3999

\* whether a required constructor argument is None or empty
Missing(x) == x = PyNone \/ x = ""

\* C8: constructing a PaymentRequest with a missing or empty reference,
\* email or redirect URL (or a missing language) fails with InvalidArgument,
\* so no PaymentRequest object holds an absent or empty required field.
C8_RequiredArgumentsChecked ==
    /\ (/\ prCall.op = "PaymentRequest"
        /\ (\/ Missing(prCall.args.reference)
            \/ Missing(prCall.args.email)
            \/ Missing(prCall.args.redirect_success)
            \/ Missing(prCall.args.redirect_cancel)
            \/ prCall.args.language = PyNone))
           => prRaised = "InvalidArgument"
    /\ prState = "built"
           => (/\ ~Missing(_obj["reference"])
               /\ ~Missing(_obj["customer"]["email"])
               /\ ~Missing(_obj["redirectUrls"].success)
               /\ ~Missing(_obj["redirectUrls"].cancel)
               /\ _obj["language"] # PyNone)

\* C9: add_item with a unit count of zero or less fails with
\* InvalidArgument, so every item of the document has units >= 1.
C9_UnitCountPositive ==
    /\ (prCall.op = "add_item" /\ prCall.args.unit_count <= 0)
           => prRaised = "InvalidArgument"
    /\ \A i \in 1..Len(_items) : _items[i]["units"] >= 1

\* C10: after add_callback_urls(success, cancel) on a PaymentRequest the
\* document's callbackUrls are the success and cancel of the last such call.
C10_CallbackUrlsSet ==
    prCallbacks # <<>> =>
        /\ "callbackUrls" \in DOMAIN _obj
        /\ _obj["callbackUrls"] = [success |-> prCallbacks[1], cancel |-> prCallbacks[2]]

\* C10, what the code does: the call raises and the document never holds
\* callbackUrls.
C10_CallbackUrlsNeverSet ==
    /\ "callbackUrls" \notin DOMAIN _obj
    /\ (prCall.op = "add_callback_urls") => (prRaised \in {"TypeError", "NameError"})

RECURSIVE SumOfDocumentItems(_)
\* the sum of unitPrice * units over the items of a document
SumOfDocumentItems(items) ==
    IF items = <<>> THEN 0
    ELSE Head(items)["unitPrice"] * Head(items)["units"] + SumOfDocumentItems(Tail(items))

\* C12: a document obtained from jsonable keeps amount = sum over its items
\* of unitPrice * units in every state, also after further add_item calls
\* on the builder and before jsonable is accessed again.
C12_HeldDocumentConsistent ==
    ("amount" \in DOMAIN _obj)
        => LET doc == Document(_obj, _items)
           IN doc["amount"] = SumOfDocumentItems(doc["items"])

\* C12, what the code does: the document held is self._obj itself, so its
\* items are always all the items added, while its amount is the total of
\* the items that had been added at the last jsonable access.
C12_HeldDocumentAmountOfLastAccess ==
    ("amount" \in DOMAIN _obj)
        => LET doc == Document(_obj, _items)
           IN /\ doc["items"] = _items
              /\ \E n \in 0..Len(_items) :
                     doc["amount"] = SumOfDocumentItems(SubSeq(_items, 1, n))
              /\ (prCall.op = "jsonable") => (doc["amount"] = SumOfDocumentItems(_items))

\* the entries of the document that the constructor sets
FixedKeys == {"reference", "stamp", "currency", "language", "customer", "redirectUrls"}

\* C19: add_item changes only the item sequence and the running total, a
\* jsonable access changes only the items and amount entries of the
\* document, the reference, stamp, currency ("EUR"), language, customer and
\* redirectUrls of the document stay the values the constructor gave them,
\* and the items added earlier stay as they were.
C19_BuilderFrame ==
    /\ []((prCall.op = "PaymentRequest")
            => (/\ DOMAIN _obj = FixedKeys
                /\ _obj["reference"] = prCall.args.reference
                /\ \E now \in ClockValues :
                       _obj["stamp"] = FormatStr(prCall.args.reference) \o "@" \o ToString(now)
                /\ _obj["currency"] = "EUR"
                /\ _obj["language"] = prCall.args.language
                /\ _obj["customer"]["email"] = prCall.args.email
                /\ _obj["redirectUrls"] = [success |-> prCall.args.redirect_success,
                                           cancel |-> prCall.args.redirect_cancel]))
    /\ [][/\ AddItem => (_obj' = _obj /\ prState' = prState)
          /\ Jsonable
                 => (/\ _items' = _items
                     /\ _total_amount' = _total_amount
                     /\ DOMAIN _obj' = DOMAIN _obj \cup {"items", "amount"}
                     /\ \A k \in DOMAIN _obj \ {"items", "amount"} :
                            k \in DOMAIN _obj' /\ _obj'[k] = _obj[k])
          /\ (prState = "built")
                 => (/\ \A k \in FixedKeys : k \in DOMAIN _obj' /\ _obj'[k] = _obj[k]
                     /\ Len(_items') >= Len(_items)
                     /\ SubSeq(_items', 1, Len(_items)) = _items)]_vars

\* C19 witness: after two jsonable accesses and two add_item calls, the
\* last call an add_item, the document still holds the constructor's values.
C19_Witness ==
    /\ prCall.op = "add_item"
    /\ prAccesses = 2
    /\ Len(_items) = 2
    /\ _items[1]["productCode"] = "SKU2"
    /\ "amount" \in DOMAIN _obj
    /\ _obj["reference"] = "ORDER-1"
    /\ _obj["customer"] = ("email" :> "ada@example.fi")


(***************************************************************************)
(* Several PaymentRequest constructions in one program, under one clock.   *)
(***************************************************************************)
\* the most PaymentRequest objects constructed
MaxObjects == 2

\* the most steps the clock takes
MaxTicks == 1

\* the first reading of the clock
ClockStart == CHOOSE t \in ClockValues : TRUE

PsInit ==
    /\ psObjects = <<>>
    /\ psClock = ClockStart

\* PaymentRequest(...): one more object, stamped with the clock's reading
ConstructAnother ==
    /\ Len(psObjects) < MaxObjects
    /\ \E a \in ConstructorArgs :
           psObjects' = Append(psObjects,
                               [obj |-> PaymentRequest_init(a, psClock).obj,
                                now |-> psClock])
    /\ UNCHANGED <<api, sgVars, prVars, srVars, psClock, ccVars>>

\* time passes: datetime.now().timestamp() returns a later value
ClockTick ==
    /\ psClock < ClockStart + MaxTicks
    /\ psClock' = psClock + 1
    /\ UNCHANGED <<api, sgVars, prVars, srVars, psObjects, ccVars>>

PsNext == ConstructAnother \/ ClockTick

InitStamp == ApiInit /\ SgIdle /\ PrInit /\ SrInit /\ PsInit /\ CcIdle

SpecStamp == InitStamp /\ [][PsNext]_vars

\* C15: any two distinct PaymentRequest constructions, also two with the
\* same reference for which the clock returns the same value, produce
\* documents with different stamps.
C15_StampsDistinct ==
    \A i, j \in 1..Len(psObjects) :
        (i # j) => (psObjects[i].obj["stamp"] # psObjects[j].obj["stamp"])

\* C15, what the code does: two constructions have the same stamp exactly
\* when their references format to the same text and the clock gave both
\* the same value.
C15_StampsEqualOnSameReferenceAndClock ==
    \A i, j \in 1..Len(psObjects) :
        (psObjects[i].obj["stamp"] = psObjects[j].obj["stamp"])
            <=> (/\ FormatStr(psObjects[i].obj["reference"])
                       = FormatStr(psObjects[j].obj["reference"])
                 /\ psObjects[i].now = psObjects[j].now)

(***************************************************************************)
(* CheckoutAPI.send_request                                                *)
(***************************************************************************)
\* "content-type" and its value "application/json; charset=utf-8"
NameContentType == <<99, 111, 110, 116, 101, 110, 116, 45, 116, 121, 112, 101>>
ValJsonUtf8 ==
    <<97, 112, 112, 108, 105, 99, 97, 116, 105, 111, 110, 47, 106, 115, 111, 110,
      59, 32, 99, 104, 97, 114, 115, 101, 116, 61, 117, 116, 102, 45, 56>>
\* "checkout-account", "checkout-method", "checkout-nonce",
\* "checkout-timestamp", "checkout-transaction-id"
NameAccount == CheckoutPrefix \o <<97, 99, 99, 111, 117, 110, 116>>
NameMethod == CheckoutPrefix \o <<109, 101, 116, 104, 111, 100>>
NameNonce == CheckoutPrefix \o <<110, 111, 110, 99, 101>>
NameTimestamp == CheckoutPrefix \o <<116, 105, 109, 101, 115, 116, 97, 109, 112>>
NameTransactionId ==
    CheckoutPrefix \o <<116, 114, 97, 110, 115, 97, 99, 116, 105, 111, 110, 45, 105, 100>>
\* "Checkout-Algorithm", as a server may spell the header
NameAlgorithmCap ==
    <<67, 104, 101, 99, 107, 111, 117, 116, 45, 65, 108, 103, 111, 114, 105, 116, 104, 109>>
\* "User-Agent", "checkout2/0.1", "Content-Length"
NameUserAgent == <<85, 115, 101, 114, 45, 65, 103, 101, 110, 116>>
ValUserAgent == <<99, 104, 101, 99, 107, 111, 117, 116, 50, 47, 48, 46, 49>>
NameContentLength == <<67, 111, 110, 116, 101, 110, 116, 45, 76, 101, 110, 103, 116, 104>>
\* "GET", "POST"
Get == <<71, 69, 84>>
Post == <<80, 79, 83, 84>>
\* "tx-1", a transaction id; "req-1", a cof-request-id
ValTransaction == <<116, 120, 45, 49>>
ValRequestId == <<114, 101, 113, 45, 49>>
\* "forged", a signature that is no digest
ValForged == <<102, 111, 114, 103, 101, 100>>
\* b"{}" and b"oops"
BytesEmptyObject == <<123, 125>>
BytesOops == <<111, 111, 112, 115>>

\* the values token_urlsafe() gives in the model: "nonce-A", "nonce-B"
Nonces == {<<110, 111, 110, 99, 101, 45, 65>>, <<110, 111, 110, 99, 101, 45, 66>>}

\* the values datetime.now(timezone.utc).isoformat() gives in the model:
\* "2019-11-04T17:00:00+00:00"
Timestamps ==
    {<<50, 48, 49, 57, 45, 49, 49, 45, 48, 52, 84, 49, 55, 58, 48, 48, 58, 48, 48,
       43, 48, 48, 58, 48, 48>>}

\* json.dumps(data).encode() for the data of the model: the empty dict
JsonDumps(data) == IF data = "{}" THEN BytesEmptyObject ELSE <<>>

\* whether resp.json() parses the content (it raises JSONDecodeError if not)
JsonParses(content) == content = BytesEmptyObject

\* the nonce kept on the object: the one the first call drew serves the
\* calls that come while it exists
RequestHeaders_NonceOfFirstCall(self, method, nonce, timestamp, transaction_id) ==
    << <<NameContentType, ValJsonUtf8>>,
       <<NameAccount, self.merchant_id>>,
       <<NameAlgorithm, self.algorithm>>,
       <<NameMethod, method>>,
       <<NameNonce, IF ccCalls # <<>> /\ ccCalls[1].pc # "idle"
                    THEN ccCalls[1].nonce
                    ELSE nonce>>,
       <<NameTimestamp, timestamp>> >>
    \o (IF transaction_id # NoValue
        THEN << <<NameTransactionId, transaction_id>> >>
        ELSE <<>>)

\* lines 304-312: the dict headers, in insertion order
RequestHeaders(self, method, nonce, timestamp, transaction_id) ==
    << <<NameContentType, ValJsonUtf8>>,
       <<NameAccount, self.merchant_id>>,
       <<NameAlgorithm, self.algorithm>>,
       <<NameMethod, method>>,
       <<NameNonce, nonce>>,
       <<NameTimestamp, timestamp>> >>
    \o (IF transaction_id # NoValue
        THEN << <<NameTransactionId, transaction_id>> >>
        ELSE <<>>)

\* the body given to Request: json.dumps(data).encode() or None
RequestBody(data) == IF data # "None" THEN JsonDumps(data) ELSE NoBody

\* the request signed over its headers only, the body left out
PrepareRequest_SignsHeadersOnly(self, method, headers, body) ==
    LET prepared == << <<NameUserAgent, ValUserAgent>> >>
                    \o headers
                    \o (IF body # NoBody
                        THEN << <<NameContentLength, <<48 + Len(body)>> >> >>
                        ELSE <<>>)
        sig == sign_request(self, self.algorithm, headers, NoBody)
    IN [method |-> method,
        headers |-> Append(prepared, <<NameSignature, sig.val>>),
        body |-> body]

\* lines 314-328: the prepared request.  The session's User-Agent comes
\* first, then the headers of the call; a body brings its Content-Length;
\* last the signature computed over the dict headers and req.body.
PrepareRequest(self, method, headers, body) ==
    LET prepared == << <<NameUserAgent, ValUserAgent>> >>
                    \o headers
                    \o (IF body # NoBody
                        THEN << <<NameContentLength, <<48 + Len(body)>> >> >>
                        ELSE <<>>)
        sig == sign_request(self, self.algorithm, headers, body)
    IN [method |-> method,
        headers |-> Append(prepared, <<NameSignature, sig.val>>),
        body |-> body]

\* resp.ok: raise_for_status raises for 400 <= status_code < 600
ResponseOk(resp) == ~(resp.status_code >= 400 /\ resp.status_code < 600)

\* CheckoutResponse.__init__: headers["cof-request-id"], then resp.json()
CheckoutResponse_init(resp) ==
    IF ~HasKey(resp.headers, NameRequestId, TRUE) THEN [exc |-> "KeyError", val |-> NoResult]
    ELSE IF ~JsonParses(resp.content) THEN [exc |-> "JSONDecodeError", val |-> NoResult]
    ELSE [exc |-> "none",
          val |-> [kind |-> "CheckoutResponse",
                   request_id |-> Lookup(resp.headers, NameRequestId, TRUE),
                   data |-> resp.content]]

\* send_request with the signature check left out
HandleResponse_NoSignatureCheck(self, resp, response_factory) ==
    IF ~ResponseOk(resp)
    THEN [NoOutcome EXCEPT !.raised = "ProviderError", !.response = resp]
    ELSE IF response_factory = "None"
    THEN LET r == CheckoutResponse_init(resp)
         IN [NoOutcome EXCEPT !.raised = r.exc, !.result = r.val, !.trusted = <<resp>>]
    ELSE [NoOutcome EXCEPT
             !.result = [kind |-> "factory", request_id |-> <<>>, data |-> resp.content],
             !.trusted = <<resp>>]

\* send_request checking the signature before the status
HandleResponse_SignatureFirst(self, resp, response_factory) ==
    LET v == is_response_ok(self, resp.headers, TRUE, resp.content)
    IN IF v.exc # "none" THEN [NoOutcome EXCEPT !.raised = v.exc, !.verdict = v]
       ELSE IF ~v.ok
       THEN [NoOutcome EXCEPT !.raised = "ResponseSignatureError", !.verdict = v]
       ELSE IF ~ResponseOk(resp)
       THEN [NoOutcome EXCEPT !.raised = "ProviderError", !.response = resp, !.verdict = v]
       ELSE HandleResponse_NoSignatureCheck(self, resp, response_factory)

\* lines 336-342: what send_request does with the response
HandleResponse(self, resp, response_factory) ==
    IF ~ResponseOk(resp)
    THEN [NoOutcome EXCEPT !.raised = "ProviderError", !.response = resp]
    ELSE LET v == is_response_ok(self, resp.headers, TRUE, resp.content)
         IN IF v.exc # "none" THEN [NoOutcome EXCEPT !.raised = v.exc, !.verdict = v]
            ELSE IF ~v.ok
            THEN [NoOutcome EXCEPT !.raised = "ResponseSignatureError", !.verdict = v]
            ELSE IF response_factory = "None"
            THEN LET r == CheckoutResponse_init(resp)
                 IN [NoOutcome EXCEPT !.raised = r.exc, !.result = r.val,
                                      !.trusted = <<resp>>, !.verdict = v]
            ELSE [NoOutcome EXCEPT
                     !.result = [kind |-> "factory", request_id |-> <<>>,
                                 data |-> resp.content],
                     !.trusted = <<resp>>, !.verdict = v]

\* The responses the HTTP client may return: any status of the model, a
\* checkout-algorithm header or none, a signature header or none (the
\* provider's own, computed with the shared secret, or a forged one), a
\* cof-request-id or none, and a body.
Statuses == {200, 402, 500}

\* the checkout- headers of a response: none, a checkout-algorithm naming a
\* digest or not, or the headers spelt as a server may spell them
ResponseBase ==
    {<<>>}
    \cup {<< <<NameAlgorithm, a>> >> : a \in {Sha512, Sha256, Sha513}}
    \cup {<< <<NameAlgorithmCap, Sha512>>, <<NameAccount, MerchantId>> >>}

\* the signature the provider, who holds the secret key, puts on a response
ProviderSignature(headers, content) ==
    HexDigest(Encode(SecretKey),
              signature_payload(headers, content),
              Lookup(headers, NameAlgorithm, TRUE))

\* the signature header of a response: none, the provider's or a forged one
SignatureHeader(kind, headers, content) ==
    CASE kind = "none" -> <<>>
      [] kind = "forged" -> << <<NameSignature, ValForged>> >>
      [] kind = "provider" ->
            << <<NameSignature, ProviderSignature(headers, content)>> >>

Responses ==
    {[status_code |-> x[1],
      headers |-> x[2] \o x[3] \o SignatureHeader(x[4], x[2], x[5]),
      content |-> x[5]] :
        x \in {y \in Statuses
                     \X ResponseBase
                     \X {<<>>, << <<NameRequestId, ValRequestId>> >>}
                     \X {"none", "forged", "provider"}
                     \X {BytesEmptyObject, BytesOops} :
                 y[4] = "provider" => HasKey(y[2], NameAlgorithm, TRUE)}}

\* "/payments" and "/merchants/payment-providers"
PaymentsPath == <<47, 112, 97, 121, 109, 101, 110, 116, 115>>
ProvidersPath ==
    <<47, 109, 101, 114, 99, 104, 97, 110, 116, 115, 47, 112, 97, 121, 109, 101, 110,
      116, 45, 112, 114, 111, 118, 105, 100, 101, 114, 115>>
\* "amount", "%d" and "None"
NameAmount == <<97, 109, 111, 117, 110, 116>>
PercentD == <<37, 100>>
StrNone == <<78, 111, 110, 101>>

RECURSIVE Digits(_)
\* the decimal digits of a natural number
Digits(n) == IF n < 10 THEN <<48 + n>> ELSE Digits(n \div 10) \o <<48 + (n % 10)>>

\* str(n) for an int
Decimal(n) == IF n < 0 THEN <<45>> \o Digits(-n) ELSE Digits(n)

RECURSIVE StrFormat(_, _)
\* template.format(n) for an int n: each replacement field "{}" of the
\* template becomes str(n), every other character stays (a "%" too)
StrFormat(template, n) ==
    IF template = <<>> THEN <<>>
    ELSE IF Len(template) >= 2 /\ template[1] = 123 /\ template[2] = 125
    THEN Decimal(n) \o StrFormat(SubSeq(template, 3, Len(template)), n)
    ELSE <<Head(template)>> \o StrFormat(Tail(template), n)

\* "0123456789ABCDEF"
HexDigits == <<48, 49, 50, 51, 52, 53, 54, 55, 56, 57, 65, 66, 67, 68, 69, 70>>

RECURSIVE QuotePlus(_)
\* urllib.parse.quote_plus on ASCII text: letters, digits and "_.-~" stay,
\* a space becomes "+", any other character becomes "%" and two hex digits
QuotePlus(str) ==
    IF str = <<>> THEN <<>>
    ELSE LET c == Head(str)
         IN (IF \/ (c >= 48 /\ c <= 57) \/ (c >= 65 /\ c <= 90) \/ (c >= 97 /\ c <= 122)
                \/ c \in {95, 46, 45, 126}
             THEN <<c>>
             ELSE IF c = 32 THEN <<43>>
             ELSE <<37, HexDigits[(c \div 16) + 1], HexDigits[(c % 16) + 1]>>)
            \o QuotePlus(Tail(str))

\* urlencode of a mapping given as <<key, value>> pairs: key=value joined
\* by "&", both quoted; a value None goes through str() and reads "None"
urlencode(kwargs) ==
    Join(<<38>>,
         [i \in 1..Len(kwargs) |->
             QuotePlus(kwargs[i][1]) \o <<61>>
             \o QuotePlus(IF kwargs[i][2] = NoValue THEN StrNone ELSE kwargs[i][2])])

\* query_url for a base without query or fragment: geturl() puts "?" and
\* the query after the path when the query is not empty
query_url(base, kwargs) ==
    LET query == urlencode(kwargs)
    IN IF query = <<>> THEN base ELSE base \o <<63>> \o query

\* urljoin(self.api_endpoint, path) for a path starting with "/" on an
\* endpoint without a path: the endpoint followed by the path, kept as the
\* pair of the two
urljoin(base, url) == <<base, url>>

\* the amounts given to list_providers: <<>> is None, <<n>> the int n
Amounts == {<<>>, <<0>>, <<7>>, <<1500>>}

\* list_providers: the path it gives to send_request
ProvidersUrl(amount) ==
    query_url(ProvidersPath,
              << <<NameAmount,
                   IF amount # <<>> THEN StrFormat(PercentD, amount[1]) ELSE NoValue>> >>)

\* lines 304-328 of a send_request call with the arguments args
StartCall(args, nonce, timestamp) ==
    /\ srPc = "idle"
    /\ LET headers == RequestHeaders(api, args.method, nonce, timestamp,
                                     args.transaction_id)
       IN /\ srArgs' = args
          /\ srHeaders' = headers
          /\ srReq' = PrepareRequest(api, args.method, headers, RequestBody(args.data))
    /\ srPc' = "Building"
    /\ UNCHANGED <<api, psVars, ccVars, sgVars, prVars, srSends, srResp, srOut>>

\* send_request called by the program itself
Build ==
    \E method \in {Get, Post}, data \in {"None", "{}"},
       transaction_id \in {NoValue, ValTransaction},
       response_factory \in {"None", "factory"},
       nonce \in Nonces, timestamp \in Timestamps :
        StartCall([via |-> "send_request", amount |-> <<>>, path |-> PaymentsPath,
                   method |-> method, data |-> data,
                   transaction_id |-> transaction_id,
                   response_factory |-> response_factory],
                  nonce, timestamp)

\* list_providers(amount): send_request(query_url(...), data=None, method="GET")
ListProviders ==
    \E amount \in Amounts, nonce \in Nonces, timestamp \in Timestamps :
        StartCall([via |-> "list_providers", amount |-> amount,
                   path |-> ProvidersUrl(amount),
                   method |-> Get, data |-> "None",
                   transaction_id |-> NoValue,
                   response_factory |-> "None"],
                  nonce, timestamp)

\* line 334: s.send(req) returns a response
Send ==
    /\ srPc = "Building"
    /\ srResp' \in Responses
    /\ srSends' = srSends + 1
    /\ srPc' = "Sent"
    /\ UNCHANGED <<api, psVars, ccVars, sgVars, prVars, srArgs, srHeaders, srReq, srOut>>

\* line 334: s.send(req) raises (no connection, timeout)
SendFails ==
    /\ srPc = "Building"
    /\ srSends' = srSends + 1
    /\ srOut' = [NoOutcome EXCEPT !.raised = "ConnectionError"]
    /\ srPc' = "done"
    /\ UNCHANGED <<api, psVars, ccVars, sgVars, prVars, srArgs, srHeaders, srReq, srResp>>

\* a ProviderError answer makes the call send the request again
Handle_SendsAgainOnProviderError ==
    /\ srPc = "Sent"
    /\ LET out == HandleResponse(api, srResp, srArgs.response_factory)
       IN IF out.raised = "ProviderError"
          THEN srPc' = "Building" /\ srOut' = srOut
          ELSE srPc' = "done" /\ srOut' = out
    /\ UNCHANGED <<api, psVars, ccVars, sgVars, prVars, srArgs, srHeaders, srReq, srSends, srResp>>

\* lines 336-342
Handle ==
    /\ srPc = "Sent"
    /\ srOut' = HandleResponse(api, srResp, srArgs.response_factory)
    /\ srPc' = "done"
    /\ UNCHANGED <<api, psVars, ccVars, sgVars, prVars, srArgs, srHeaders, srReq, srSends, srResp>>

SrNext == Build \/ ListProviders \/ Send \/ SendFails \/ Handle

Init == ApiInit /\ SgIdle /\ PrInit /\ SrInit /\ PsIdle /\ CcIdle

Spec == Init /\ [][SrNext]_vars


(***************************************************************************)
(* Claims about send_request (under Spec).                                 *)
(***************************************************************************)
\* the call has ended after the HTTP client returned a response
Answered == srPc = "done" /\ srResp # NoResponse

\* the response carries a signature and names a digest, so that its
\* signature can be recomputed
Recomputable(resp) ==
    /\ HasKey(resp.headers, NameSignature, TRUE)
    /\ HasKey(resp.headers, NameAlgorithm, TRUE)
    /\ KnownDigest(Lookup(resp.headers, NameAlgorithm, TRUE))

\* the signature of the response recomputed with the client's secret key
Recomputed(resp) ==
    HexDigest(Encode(api.secret_key),
              signature_payload(resp.headers, resp.content),
              Lookup(resp.headers, NameAlgorithm, TRUE))

\* C1: send_request returns a result, and gives the response to
\* CheckoutResponse or response_factory, only when is_response_ok returned
\* true for it; a response with an OK status whose signature header is not
\* the recomputed signature ends in ResponseSignatureError and is given to
\* neither.
C1_OnlyVerifiedResponsesTrusted ==
    /\ (srOut.result.kind # "none" \/ srOut.trusted # <<>>)
           => (/\ srOut.verdict = [exc |-> "none", ok |-> TRUE]
               /\ srOut.trusted = <<srResp>>
               /\ Recomputable(srResp)
               /\ Lookup(srResp.headers, NameSignature, TRUE) = Recomputed(srResp))
    /\ (/\ Answered
        /\ ResponseOk(srResp)
        /\ Recomputable(srResp)
        /\ Lookup(srResp.headers, NameSignature, TRUE) # Recomputed(srResp))
           => (/\ srOut.raised = "ResponseSignatureError"
               /\ srOut.result = NoResult
               /\ srOut.trusted = <<>>)

\* C1 witness: a 200 response with a forged signature was rejected.
C1_Witness ==
    /\ Answered
    /\ srResp.status_code = 200
    /\ Recomputable(srResp)
    /\ Lookup(srResp.headers, NameSignature, TRUE) = ValForged
    /\ srOut.raised = "ResponseSignatureError"

\* C2: a response with a 4xx or 5xx status ends in ProviderError carrying
\* exactly that response, whatever its signature header, without
\* is_response_ok being called and without the response being given to
\* CheckoutResponse or response_factory.
C2_ProviderErrorCarriesResponse ==
    (Answered /\ srResp.status_code >= 400 /\ srResp.status_code <= 599)
        => (/\ srOut.raised = "ProviderError"
            /\ srOut.response = srResp
            /\ srOut.verdict.exc = "not_called"
            /\ srOut.result = NoResult
            /\ srOut.trusted = <<>>)

\* C2 witness: a 402 response without a signature header ended in
\* ProviderError.
C2_Witness ==
    /\ Answered
    /\ srResp.status_code = 402
    /\ ~HasKey(srResp.headers, NameSignature, TRUE)
    /\ srOut.raised = "ProviderError"
    /\ srOut.response = srResp

\* C7: a call the HTTP client answered ends Verified (a result returned),
\* SignatureRejected (ResponseSignatureError) or ProviderRejected
\* (ProviderError), and in no other error.
C7_ThreeOutcomes ==
    Answered =>
        \/ srOut.raised = "none" /\ srOut.result # NoResult
        \/ srOut.raised = "ResponseSignatureError"
        \/ srOut.raised = "ProviderError"

\* C7, what the code does: the other endings are the KeyError of a missing
\* signature, checkout-algorithm or cof-request-id header, the ValueError of
\* an unknown digest name and the JSONDecodeError of a body that is no JSON.
C7_OtherOutcomes ==
    (Answered /\ ~C7_ThreeOutcomes) =>
        \/ /\ srOut.raised = "KeyError"
           /\ \/ ~HasKey(srResp.headers, NameSignature, TRUE)
              \/ ~HasKey(srResp.headers, NameAlgorithm, TRUE)
              \/ ~HasKey(srResp.headers, NameRequestId, TRUE)
        \/ /\ srOut.raised = "ValueError"
           /\ ~KnownDigest(Lookup(srResp.headers, NameAlgorithm, TRUE))
        \/ /\ srOut.raised = "JSONDecodeError"
           /\ ~JsonParses(srResp.content)

\* C14: on every path of one send_request call the HTTP client's send is
\* invoked at most once (not at all before the request is prepared, once by
\* the time the call has ended), and a call that ended in ProviderError or
\* ResponseSignatureError has issued exactly that one request.
C14_SingleAttempt ==
    /\ srSends <= 1
    /\ (srPc \in {"idle", "Building"}) => (srSends = 0)
    /\ (srPc \in {"Sent", "done"}) => (srSends = 1)
    /\ (srOut.raised \in {"ProviderError", "ResponseSignatureError"})
           => (srPc = "done" /\ srSends = 1)

\* C14 witness: a call ended in ProviderError, another in
\* ResponseSignatureError, after one send.
C14_Witness ==
    /\ srPc = "done"
    /\ srSends = 1
    /\ srOut.raised \in {"ProviderError", "ResponseSignatureError"}
    /\ srResp.status_code \in {200, 500}

\* the checkout- headers of a request as sent, in the order sent
SentCheckoutHeaders(req) == SelectSeq(req.headers, LAMBDA h : IsCheckoutName(h[1]))

\* C17: every request send_request hands to the HTTP client is validly
\* self-signed: its signature header is sign_request(client algorithm, its
\* checkout- headers as sent, its body as sent), so is_response_ok(sent
\* headers, sent body) under the same credentials returns true; and the
\* checkout-transaction-id header is among the signed headers exactly when
\* a transaction_id was supplied.
C17_SentRequestSelfSigned ==
    (srSends >= 1)
        => LET signed == SentCheckoutHeaders(srReq)
               sig == Returned(Lookup(srReq.headers, NameSignature, TRUE))
           IN /\ HasKey(srReq.headers, NameSignature, TRUE)
              /\ sig = sign_request(api, api.algorithm, signed, srReq.body)
              /\ is_response_ok(api, srReq.headers, TRUE, srReq.body)
                     = [exc |-> "none", ok |-> TRUE]
              /\ srReq.body = RequestBody(srArgs.data)
              /\ HasKey(signed, NameTransactionId, TRUE)
                     <=> (srArgs.transaction_id # NoValue)
              /\ (srArgs.transaction_id # NoValue)
                     => (/\ Lookup(signed, NameTransactionId, TRUE) = srArgs.transaction_id
                         /\ \E i \in 1..Len(signed) :
                                /\ signed[i][1] = NameTransactionId
                                /\ sign_request(api, api.algorithm, RemoveAt(signed, i),
                                                srReq.body) # sig)

\* C17 witness: a POST with body b"{}" and a transaction id was sent.
C17_Witness ==
    /\ srPc = "Sent"
    /\ srSends = 1
    /\ srReq.method = Post
    /\ srReq.body = BytesEmptyObject
    /\ srArgs.transaction_id = ValTransaction
    /\ HasKey(srReq.headers, NameTransactionId, TRUE)

\* the URL of the request: urljoin(self.api_endpoint, path)
RequestUrl == urljoin(api.api_endpoint, srArgs.path)

\* C16: list_providers(n) with an integer n issues one GET request to
\* /merchants/payment-providers whose amount query parameter is the plain
\* decimal serialization of n (amount=1500 for 1500), so the URL depends
\* on n.
C16_AmountInUrl ==
    (srArgs.via = "list_providers" /\ srArgs.amount # <<>>)
        => (/\ srReq.method = Get
            /\ srSends <= 1
            /\ RequestUrl = <<api.api_endpoint,
                              ProvidersPath \o <<63>> \o NameAmount \o <<61>>
                                  \o Decimal(srArgs.amount[1])>>)

\* C16, what the code does: one GET request whose query is amount=%25d (the
\* quoted "%d") for every integer, and amount=None for no amount.
C16_AmountIsThePercentTemplate ==
    (srArgs.via = "list_providers")
        => (/\ srReq.method = Get
            /\ srReq.body = NoBody
            /\ srSends <= 1
            /\ RequestUrl = <<api.api_endpoint,
                              ProvidersPath \o <<63>> \o NameAmount \o <<61>>
                                  \o (IF srArgs.amount # <<>>
                                      THEN <<37, 50, 53, 100>>
                                      ELSE StrNone)>>)


(***************************************************************************)
(* Several send_request calls at once on the one CheckoutAPI object.  Each *)
(* call has its own local variables; the object is what the calls share.   *)
(***************************************************************************)
\* the most send_request calls running at once
MaxCalls == 2

CallIds == 1..MaxCalls

\* the arguments of the calls: a GET without data, a POST with data and a
\* transaction id
CcArgs ==
    {[via |-> "send_request", amount |-> <<>>, path |-> ProvidersPath,
      method |-> Get, data |-> "None", transaction_id |-> NoValue,
      response_factory |-> "None"],
     [via |-> "send_request", amount |-> <<>>, path |-> PaymentsPath,
      method |-> Post, data |-> "{}", transaction_id |-> ValTransaction,
      response_factory |-> "None"]}

\* the responses the calls get: a 200 signed by the provider, with a
\* cof-request-id and the body b"{}", and a bare 402
CcResponses ==
    {r \in Responses :
        \/ /\ r.status_code = 200
           /\ r.content = BytesEmptyObject
           /\ Len(r.headers) = 3
           /\ r.headers[1] = <<NameAlgorithm, Sha512>>
           /\ r.headers[2][1] = NameRequestId
           /\ r.headers[3][2] # ValForged
        \/ /\ r.status_code = 402
           /\ r.headers = <<>>
           /\ r.content = BytesOops}

\* a call that has not started
NoCall ==
    [pc |-> "idle",
     args |-> [via |-> "none", amount |-> <<>>, path |-> <<>>, method |-> <<>>,
               data |-> "None", transaction_id |-> NoValue, response_factory |-> "None"],
     nonce |-> <<>>,
     timestamp |-> <<>>,
     headers |-> <<>>,
     req |-> [method |-> <<>>, headers |-> <<>>, body |-> NoBody],
     sends |-> 0,
     resp |-> NoResponse,
     out |-> NoOutcome]

CcInit == ccCalls = [c \in CallIds |-> NoCall]

\* lines 304-312 of call c: token_urlsafe() and datetime.now() are called
\* and the local dict headers is built
CcHeaders(c) ==
    /\ ccCalls[c].pc = "idle"
    /\ \E args \in CcArgs, nonce \in Nonces, timestamp \in Timestamps :
           ccCalls' = [ccCalls EXCEPT
                          ![c].pc = "headers",
                          ![c].args = args,
                          ![c].nonce = nonce,
                          ![c].timestamp = timestamp,
                          ![c].headers = RequestHeaders(api, args.method, nonce, timestamp,
                                                        args.transaction_id)]
    /\ UNCHANGED <<api, sgVars, prVars, srVars, psVars>>

\* lines 314-328 of call c: the request is prepared in the call's own
\* Session and signed
CcPrepare(c) ==
    /\ ccCalls[c].pc = "headers"
    /\ ccCalls' = [ccCalls EXCEPT
                      ![c].pc = "Building",
                      ![c].req = PrepareRequest(api, ccCalls[c].args.method,
                                                ccCalls[c].headers,
                                                RequestBody(ccCalls[c].args.data))]
    /\ UNCHANGED <<api, sgVars, prVars, srVars, psVars>>

\* line 334 of call c
CcSend(c) ==
    /\ ccCalls[c].pc = "Building"
    /\ \E resp \in CcResponses :
           ccCalls' = [ccCalls EXCEPT
                          ![c].pc = "Sent",
                          ![c].sends = ccCalls[c].sends + 1,
                          ![c].resp = resp]
    /\ UNCHANGED <<api, sgVars, prVars, srVars, psVars>>

\* lines 336-342 of call c
CcHandle(c) ==
    /\ ccCalls[c].pc = "Sent"
    /\ ccCalls' = [ccCalls EXCEPT
                      ![c].pc = "done",
                      ![c].out = HandleResponse(api, ccCalls[c].resp,
                                                ccCalls[c].args.response_factory)]
    /\ UNCHANGED <<api, sgVars, prVars, srVars, psVars>>

CcNext ==
    \E c \in CallIds :
        \/ CcHeaders(c)
        \/ CcPrepare(c)
        \/ CcSend(c)
        \/ CcHandle(c)

InitConcurrent == ApiInit /\ SgIdle /\ PrInit /\ SrInit /\ PsIdle /\ CcInit

SpecConcurrent == InitConcurrent /\ [][CcNext]_vars

\* C13: in every interleaving of several send_request calls on the same
\* CheckoutAPI object each call's header set holds the nonce and the
\* timestamp generated within that call, the signature attached to each
\* request is computed over that call's own headers and body, and the
\* object's merchant_id, secret_key, api_endpoint and algorithm stay as
\* constructed.
C13_CallsIsolated ==
    /\ api = CheckoutAPI_init(MerchantId, SecretKey, "https://api.checkout.fi")
    /\ \A c \in DOMAIN ccCalls :
           LET call == ccCalls[c]
           IN /\ (call.pc # "idle")
                     => (/\ Lookup(call.headers, NameNonce, FALSE) = call.nonce
                         /\ Lookup(call.headers, NameTimestamp, FALSE) = call.timestamp
                         /\ Lookup(call.headers, NameMethod, FALSE) = call.args.method)
              /\ (call.pc \in {"Building", "Sent", "done"})
                     => (/\ call.req.body = RequestBody(call.args.data)
                         /\ \A i \in 1..Len(call.headers) :
                                Lookup(call.req.headers, call.headers[i][1], TRUE)
                                    = call.headers[i][2]
                         /\ Returned(Lookup(call.req.headers, NameSignature, TRUE))
                                = sign_request(api, api.algorithm, call.headers,
                                               call.req.body))

\* C13 witness: two calls are under way at once, with different nonces,
\* methods and bodies: the first has sent its request, the
\* second has signed its own and not sent it yet.
C13_Witness ==
    /\ ccCalls # <<>>
    /\ ccCalls[1].pc = "Sent"
    /\ ccCalls[2].pc = "Building"
    /\ ccCalls[1].nonce # ccCalls[2].nonce
    /\ ccCalls[1].args.method = Post
    /\ ccCalls[2].args.method = Get
    /\ Lookup(ccCalls[1].req.headers, NameSignature, TRUE)
           # Lookup(ccCalls[2].req.headers, NameSignature, TRUE)

=============================================================================
